---------------------------- MODULE Spec2Model ----------------------------
(***************************************************************************)
(* The openmediavault polling client,                                      *)
(* src/custom_components/openmediavault/sensor.py: class OpenMediaVaultAPI *)
(* (login, get_system_information, error_check, format_system_information, *)
(* the throttled update) driven against an appliance that may answer every *)
(* POST in any way.                                                        *)
(*                                                                         *)
(* Python values are modelled as records so that they can be compared:     *)
(*   None                      [none |-> TRUE]                             *)
(*   a str                     a TLA+ string (metric values) or a sequence *)
(*                             of one-character strings (dict keys, which  *)
(*                             str.lower / str.replace work on)            *)
(*   a JSON object of fields   [items |-> <<[name |-> .., val |-> ..]>>]   *)
(*                             (a dict iterates in insertion order)        *)
(*   a scalar field value      [scalar |-> v]                              *)
(*   a dict field value        [dict |-> d], d a record (text, value)      *)
(*   a JSON-RPC envelope       a record with fields among response, error  *)
(***************************************************************************)
EXTENDS Integers, Sequences, FiniteSets, TLC

VARIABLES
    pc,          \* control position: "ctor", "idle", "gsi", "login", "failed"
    depth,       \* number of get_system_information frames on the stack
    data,        \* self.data
    raw_data,    \* self.raw_data
    available,   \* self.available
    conditions,  \* self.conditions
    username,    \* self.username
    password,    \* self.password
    elapsed,     \* utcnow() - throttle[1] of update's Throttle; NoTime if unset
    result,      \* how the latest fetching update() ended ("none": running)
    throttled,   \* the latest update() call was answered by the Throttle
    events,      \* requests sent by the latest fetching update(), in order
    lastAnswer,  \* the latest answer to a getInformation request of that call
    dataAtCall,  \* self.data when the latest fetching update() was called
    sinceFetch,  \* time since the latest fetching update() ended
    loginsBefore,\* login() calls before the latest fetching update() (capped)
    authFails,   \* 5000/5001 answers to getInformation in that call
    availAtCall, \* self.available when the latest fetching update() was called
    state,       \* _state of each OpenMediaVaultSensor, by position in conditions
    caller       \* the sensor whose async_update made the latest update() call

vars == <<pc, depth, data, raw_data, available, conditions, username, password,
          elapsed, result, throttled, events, lastAnswer, dataAtCall, sinceFetch,
          loginsBefore, authFails, availAtCall, state, caller>>

-----------------------------------------------------------------------------
(* Bounds of the model *)

\* Stack frames of get_system_information the interpreter allows before it
\* raises RecursionError (sys.getrecursionlimit(), scaled down).
RecursionLimit == 3

\* Largest number of fields in a response object.
MaxFields == 2

\* Cap of the loginsBefore bookkeeping counter.
MaxCount == 2

\* Seconds the clock advances between two observations of it.
TickSeconds == 30

-----------------------------------------------------------------------------
(* Program constants *)

MIN_TIME_BETWEEN_UPDATES == 30
ERROR_CODE_NOT_AUTHENTICATED == 5000
ERROR_CODE_SESSION_EXPIRED == 5001

STATE_UNKNOWN == "unknown"
DEFAULT_USERNAME == "admin"

ATTR_HOSTNAME == <<"h","o","s","t","n","a","m","e">>
ATTR_VERSION == <<"v","e","r","s","i","o","n">>
ATTR_PROCESSOR == <<"c","p","u","m","o","d","e","l","n","a","m","e">>
ATTR_KERNEL == <<"k","e","r","n","e","l">>
ATTR_SYSTEM_TIME == <<"t","i","m","e">>
ATTR_UPTIME == <<"u","p","t","i","m","e">>
ATTR_LOAD_AVERAGE == <<"l","o","a","d","a","v","e","r","a","g","e">>
ATTR_CPU_USAGE == <<"c","p","u","u","s","a","g","e">>
ATTR_MEMORY_USAGE == <<"m","e","m","u","s","e","d">>

\* The keys of MONITORED_CONDITIONS, which are the keys __init__ gives data.
MONITORED_CONDITIONS ==
    { ATTR_HOSTNAME, ATTR_VERSION, ATTR_PROCESSOR, ATTR_KERNEL,
      ATTR_SYSTEM_TIME, ATTR_UPTIME, ATTR_LOAD_AVERAGE, ATTR_CPU_USAGE,
      ATTR_MEMORY_USAGE }

-----------------------------------------------------------------------------
(* Python values *)

None == [none |-> TRUE]

Scalar(v) == [scalar |-> v]
Dict(d) == [dict |-> d]
Obj(fields) == [items |-> fields]
Field(n, v) == [name |-> n, val |-> v]

\* isinstance(v, dict)
IsDict(v) == "dict" \in DOMAIN v

\* str.lower() and str.replace(" ", "_") on a sequence of characters
UpperCase == <<"A","B","C","D","E","F","G","H","I","J","K","L","M",
               "N","O","P","Q","R","S","T","U","V","W","X","Y","Z">>
LowerCase == <<"a","b","c","d","e","f","g","h","i","j","k","l","m",
               "n","o","p","q","r","s","t","u","v","w","x","y","z">>

LowerChar(c) ==
    IF \E i \in DOMAIN UpperCase : UpperCase[i] = c
    THEN LowerCase[CHOOSE i \in DOMAIN UpperCase : UpperCase[i] = c]
    ELSE c

lower(s) == [i \in DOMAIN s |-> LowerChar(s[i])]

replace(s, old, new) == [i \in DOMAIN s |-> IF s[i] = old THEN new ELSE s[i]]

\* Variant of PropOf: lower-cased, the spaces kept.
PropOfLowerOnly(attr_key) == lower(attr_key)

\* prop = attr_key.lower().replace(" ", "_")
PropOf(attr_key) == replace(lower(attr_key), " ", "_")

\* Variant of Put: the assignment rebinds self.data to a fresh dict.
PutFresh(d, prop, v) == [k \in {prop} |-> v]

\* self.data[prop] = v
Put(d, prop, v) == [k \in DOMAIN d \cup {prop} |-> IF k = prop THEN v ELSE d[k]]

-----------------------------------------------------------------------------
(* What the appliance may answer to a POST *)

\* session.post raises requests.exceptions.ConnectionError
ConnFail == [kind |-> "conn"]
\* the body is not JSON: response.json() raises ValueError
NotJson == [kind |-> "notjson"]
\* the body decodes to b
Json(b) == [kind |-> "json", body |-> b]
\* no request answered yet
NoAnswer == [kind |-> "none"]

Err(code) == [code |-> code, message |-> "m"]
Env(r, e) == [response |-> r, error |-> e]

\* Field names of a getInformation response and what they may carry
NameVersion == <<"V","e","r","s","i","o","n">>
NameCPUusage == <<"C","P","U"," ","u","s","a","g","e">>
NameUsername == <<"u","s","e","r","n","a","m","e">>

FieldNames == { NameVersion, NameCPUusage }

Progress == Dict([text |-> "5%", value |-> "5"])
NoValue == Dict([text |-> "5%"])

FieldValues == { Scalar("5.2"), Progress, NoValue }

Fields == { Field(n, v) : n \in FieldNames, v \in FieldValues }

\* JSON objects of at most MaxFields fields with distinct names, in order
RECURSIVE ObjectsOf(_)
ObjectsOf(n) ==
    IF n = 0 THEN { <<>> }
    ELSE LET shorter == ObjectsOf(n - 1)
         IN  shorter \cup
             { Append(o, f) : o \in { s \in shorter : Len(s) = n - 1 },
                              f \in Fields }

DistinctNames(o) == \A i, j \in DOMAIN o : o[i].name = o[j].name => i = j

Responses == { Obj(o) : o \in { s \in ObjectsOf(MaxFields) : DistinctNames(s) } }

ErrorCodes == { ERROR_CODE_NOT_AUTHENTICATED, ERROR_CODE_SESSION_EXPIRED, 5002 }

\* Error envelopes: the appliance sends response = null with an error; an
\* envelope carrying both is included as the out-of-protocol case.
ErrorEnvelopes ==
    { Env(None, Err(c)) : c \in ErrorCodes } \cup
    { Env(Obj(<<Field(NameVersion, Scalar("5.2"))>>), Err(c)) :
          c \in { ERROR_CODE_NOT_AUTHENTICATED, 5002 } }

GetInformationAnswers ==
    { ConnFail, NotJson, Json(None), Json([response |-> None]),
      Json([error |-> None]), Json(Env(None, None)) }
    \cup { Json(e) : e \in ErrorEnvelopes }
    \cup { Json(Env(r, None)) : r \in Responses }

LoginResponse == Obj(<<Field(NameUsername, Scalar(DEFAULT_USERNAME))>>)

LoginAnswers ==
    { ConnFail, NotJson, Json(None), Json([response |-> None]),
      Json(Env(LoginResponse, None)),
      Json(Env(None, Err(ERROR_CODE_NOT_AUTHENTICATED))) }

-----------------------------------------------------------------------------
(* The methods of OpenMediaVaultAPI *)

\* Variant of login: the ConnectionError of session.post is not caught.
loginUncaught(raw, a) ==
    CASE a.kind = "conn" -> [raw_data |-> raw, exc |-> "ConnectionError"]
      [] a.kind = "notjson" -> [raw_data |-> raw, exc |-> "ValueError"]
      [] a.kind = "json" ->
           [raw_data |-> a.body,
            exc |-> IF a.body = None THEN "TypeError"
                    ELSE IF "error" \notin DOMAIN a.body THEN "KeyError"
                    ELSE "none"]

\* login(): the new raw_data and the exception that leaves login, if any.
\* ConnectionError is caught; a body that is not JSON (ValueError), None
\* (TypeError on raw_data['error']) or has no error field (KeyError) is not.
login(raw, a) ==
    CASE a.kind = "conn" -> [raw_data |-> raw, exc |-> "none"]
      [] a.kind = "notjson" -> [raw_data |-> raw, exc |-> "ValueError"]
      [] a.kind = "json" ->
           [raw_data |-> a.body,
            exc |-> IF a.body = None THEN "TypeError"
                    ELSE IF "error" \notin DOMAIN a.body THEN "KeyError"
                    ELSE "none"]

\* Variant of error_check: every non-null error signs in again and retries.
error_check_any(response) ==
    IF response = None THEN "noretry"
    ELSE IF "error" \notin DOMAIN response THEN "KeyError"
    ELSE IF response.error = None THEN "noretry"
    ELSE "login"

\* error_check(response) up to its call of login(): "login" when it goes on
\* to self.login() and retry = True, "noretry" when it returns retry = False,
\* "KeyError" when response has no error field.
error_check(response) ==
    IF response = None THEN "noretry"
    ELSE IF "error" \notin DOMAIN response THEN "KeyError"
    ELSE IF response.error = None THEN "noretry"
    ELSE IF \/ response.error.code = ERROR_CODE_NOT_AUTHENTICATED
            \/ response.error.code = ERROR_CODE_SESSION_EXPIRED
         THEN "login"
         ELSE "noretry"

\* The loop of format_system_information over response, field by field: the
\* updated data, and KeyError when a dict field has no 'value'.
RECURSIVE FormatFields(_, _)
FormatFields(d, items) ==
    IF items = <<>> THEN [data |-> d, exc |-> "none"]
    ELSE LET attr_key == Head(items).name
             value == Head(items).val
             prop == PropOf(attr_key)
         IN  IF IsDict(value)
             THEN IF "value" \in DOMAIN value.dict
                  THEN FormatFields(Put(d, prop, value.dict.value), Tail(items))
                  ELSE [data |-> d, exc |-> "KeyError"]
             ELSE FormatFields(Put(d, prop, value.scalar), Tail(items))

format_system_information(d, raw) ==
    IF raw = None THEN [data |-> d, exc |-> "none"]
    ELSE IF "response" \notin DOMAIN raw THEN [data |-> d, exc |-> "KeyError"]
    ELSE IF raw.response = None THEN [data |-> d, exc |-> "none"]
    ELSE FormatFields(d, raw.response.items)

\* Variant of ExceptArm: error_check is pre-set to retry = False, so the
\* frame falls through to the formatting (of None) and available = True.
ExceptArmFallsThrough(d) ==
    [data |-> d, raw_data |-> None, available |-> TRUE, how |-> "returned"]

\* Variant of ExceptArm: the except arm signs in again and retries.
ExceptArmRetries(d) ==
    [data |-> d, raw_data |-> None, available |-> FALSE, how |-> "login"]

\* Lines 221-226: the except arm of get_system_information, after which
\* `if error_check['retry']` reads a local that was never bound.
ExceptArm(d) ==
    [data |-> d, raw_data |-> None, available |-> FALSE,
     how |-> "UnboundLocalError"]

\* Variant of NoRetry: available = True without the formatting.
NoRetryAvailableOnly(d, raw, avail) ==
    [data |-> d, raw_data |-> raw, available |-> TRUE, how |-> "returned"]

\* Variant of NoRetry: the formatting without available = True.
NoRetryKeepsAvailable(d, raw, avail) ==
    LET f == format_system_information(d, raw)
    IN  [data |-> f.data, raw_data |-> raw, available |-> avail,
         how |-> IF f.exc = "none" THEN "returned" ELSE f.exc]

\* Lines 228-230: format_system_information(), then available = True; an
\* exception leaving the formatting leaves available as it was.
NoRetry(d, raw, avail) ==
    LET f == format_system_information(d, raw)
    IN  [data |-> f.data, raw_data |-> raw,
         available |-> IF f.exc = "none" THEN TRUE ELSE avail,
         how |-> IF f.exc = "none" THEN "returned" ELSE f.exc]

\* Variant of Frame: the formatting reads the buffer as the frame found it,
\* before the decoded answer is stored in it.
FrameFormatsBuffer(d, raw, avail, a) ==
    CASE a.kind = "conn" -> ExceptArm(d)
      [] a.kind = "notjson" ->
           [data |-> d, raw_data |-> raw, available |-> avail,
            how |-> "ValueError"]
      [] a.kind = "json" ->
           LET check == error_check(a.body)
           IN  IF check = "noretry"
               THEN [NoRetry(d, raw, avail) EXCEPT !.raw_data = a.body]
               ELSE [data |-> d, raw_data |-> a.body, available |-> avail,
                     how |-> check]

\* One frame of get_system_information for the answer a: the fields it
\* leaves and how it goes on: "login" (error_check calls login() and the
\* frame then recurses), "returned", or the exception that leaves update().
Frame(d, raw, avail, a) ==
    CASE a.kind = "conn" -> ExceptArm(d)
      [] a.kind = "notjson" ->
           [data |-> d, raw_data |-> raw, available |-> avail,
            how |-> "ValueError"]
      [] a.kind = "json" ->
           LET check == error_check(a.body)
           IN  IF check = "noretry" THEN NoRetry(d, a.body, avail)
               ELSE [data |-> d, raw_data |-> a.body, available |-> avail,
                     how |-> check]

\* Variant of ThrottleAllows: update() without its Throttle.
ThrottleAllowsAlways(e) == TRUE

\* Throttle(MIN_TIME_BETWEEN_UPDATES): the wrapped method runs when it was
\* never run to its return (throttle[1] unset) or more than min_time passed.
NoTime == -1

ThrottleAllows(e) == e = NoTime \/ e > MIN_TIME_BETWEEN_UPDATES

\* Variant of SensorState: the test of self.available is inverted.
SensorStateInverted(avail, d, var_name) ==
    IF avail THEN None ELSE Scalar(d[var_name])

\* Lines 146-149 of async_update: the _state a sensor takes after update()
\* has returned.
SensorState(avail, d, var_name) ==
    IF avail THEN Scalar(d[var_name]) ELSE None

\* The caller of an update() that no sensor made.
NoSensor == 0

-----------------------------------------------------------------------------
(* Bookkeeping *)

Min(a, b) == IF a < b THEN a ELSE b

\* A time span after one more tick; spans beyond the throttle window are
\* not told apart.
Later(t) ==
    IF t = NoTime THEN NoTime
    ELSE Min(t + TickSeconds, MIN_TIME_BETWEEN_UPDATES + TickSeconds)

\* The answer is a JSON-RPC envelope whose error carries code 5000 or 5001.
IsAuthError(a) ==
    /\ a.kind = "json"
    /\ a.body # None
    /\ "error" \in DOMAIN a.body
    /\ a.body.error # None
    /\ a.body.error.code \in { 5000, 5001 }

Count(seq, x) == Cardinality({ i \in DOMAIN seq : seq[i] = x })

\* login() calls so far: those before the latest fetching update() and those
\* made in it.
loginCount == loginsBefore + Count(events, "login")

Usernames == { DEFAULT_USERNAME }
Passwords == { "secret" }

\* The lists of monitored conditions a configuration may subscribe
ConditionChoices == { <<ATTR_VERSION>>, <<ATTR_HOSTNAME, ATTR_CPU_USAGE>> }

-----------------------------------------------------------------------------
(* The state machine *)

\* __init__ up to its last statement, the call of self.login()
Init ==
    /\ pc = "ctor"
    /\ depth = 0
    /\ data = [k \in MONITORED_CONDITIONS |-> STATE_UNKNOWN]
    /\ raw_data = None
    /\ available = TRUE
    /\ conditions \in ConditionChoices
    /\ username \in Usernames
    /\ password \in Passwords
    /\ elapsed = NoTime
    /\ result = "none"
    /\ throttled = FALSE
    /\ events = <<>>
    /\ lastAnswer = NoAnswer
    /\ dataAtCall = [k \in MONITORED_CONDITIONS |-> STATE_UNKNOWN]
    /\ sinceFetch = NoTime
    /\ loginsBefore = 0
    /\ authFails = 0
    /\ availAtCall = TRUE
    /\ state = [s \in DOMAIN conditions |-> None]
    /\ caller = NoSensor

\* The wrapped update() is left, by return or by the exception `how`. The
\* Throttle's wrapper runs `result = method(...)` and then
\* `throttle[1] = utcnow()`: an exception leaving the method skips the
\* assignment, so only a call that returned starts a throttle window.
EndUpdate(how) ==
    /\ pc' = "idle"
    /\ depth' = 0
    /\ result' = how
    /\ elapsed' = IF how = "returned" THEN 0 ELSE elapsed
    /\ sinceFetch' = 0

\* self.login() as the last statement of __init__: an exception leaving
\* login leaves the constructor, and no client exists.
CtorLogin(a) ==
    /\ pc = "ctor"
    /\ LET r == login(raw_data, a)
       IN  /\ raw_data' = r.raw_data
           /\ pc' = IF r.exc = "none" THEN "idle" ELSE "failed"
           /\ result' = r.exc
    /\ loginsBefore' = Min(loginsBefore + 1, MaxCount)
    /\ UNCHANGED <<depth, data, available, conditions, username, password,
                   elapsed, throttled, events, lastAnswer, dataAtCall,
                   sinceFetch, authFails, availAtCall, state, caller>>

\* update() through its Throttle, called by s: the call either enters
\* get_system_information or returns at once.
UpdateCall(s) ==
    /\ pc = "idle"
    /\ caller' = s
    /\ IF ThrottleAllows(elapsed)
       THEN /\ pc' = "gsi"
            /\ depth' = 1
            /\ result' = "none"
            /\ throttled' = FALSE
            /\ events' = <<>>
            /\ lastAnswer' = NoAnswer
            /\ dataAtCall' = data
            /\ availAtCall' = available
            /\ loginsBefore' = Min(loginCount, MaxCount)
            /\ authFails' = 0
            /\ UNCHANGED <<data, raw_data, available, conditions, username,
                           password, elapsed, sinceFetch>>
       ELSE /\ throttled' = TRUE
            /\ UNCHANGED <<pc, depth, data, raw_data, available, conditions,
                           username, password, elapsed, result, events,
                           lastAnswer, dataAtCall, sinceFetch, loginsBefore,
                           authFails, availAtCall>>

\* update() called on the client itself.
Update == UpdateCall(NoSensor) /\ UNCHANGED state

\* async_update of the sensor s when its update() is answered by the
\* Throttle: update() returns at once and lines 146-149 follow. When
\* update() fetches, they follow its return, in GetSystemInformation.
AsyncUpdate(s) ==
    /\ UpdateCall(s)
    /\ state' = IF ThrottleAllows(elapsed) THEN state
                ELSE [state EXCEPT
                        ![s] = SensorState(available, data, conditions[s])]

\* One frame of get_system_information: the POST, the decoding, error_check
\* up to its call of login(), and on retry = False the formatting.
GetSystemInformation(a) ==
    /\ pc = "gsi"
    /\ events' = Append(events, "get")
    /\ lastAnswer' = a
    /\ authFails' = IF IsAuthError(a) THEN authFails + 1 ELSE authFails
    /\ LET f == Frame(data, raw_data, available, a)
       IN  /\ data' = f.data
           /\ raw_data' = f.raw_data
           /\ available' = f.available
           /\ IF f.how = "login"
              THEN /\ pc' = "login"
                   /\ UNCHANGED <<depth, result, elapsed, sinceFetch>>
              ELSE EndUpdate(f.how)
           /\ state' = IF f.how = "returned" /\ caller # NoSensor
                       THEN [state EXCEPT
                               ![caller] = SensorState(f.available, f.data,
                                                       conditions[caller])]
                       ELSE state
    /\ UNCHANGED <<conditions, username, password, throttled, dataAtCall,
                   loginsBefore, availAtCall, caller>>

\* Variant of ReLogin: a login() answered without error sets available.
ReLoginSetsAvailable(a) ==
    /\ pc = "login"
    /\ events' = Append(events, "login")
    /\ LET r == login(raw_data, a)
       IN  /\ raw_data' = r.raw_data
           /\ available' = IF a.kind = "json" /\ r.exc = "none"
                              /\ a.body.error = None
                           THEN TRUE ELSE available
           /\ IF r.exc # "none" THEN EndUpdate(r.exc)
              ELSE IF depth = RecursionLimit THEN EndUpdate("RecursionError")
              ELSE /\ pc' = "gsi"
                   /\ depth' = depth + 1
                   /\ UNCHANGED <<result, elapsed, sinceFetch>>
    /\ UNCHANGED <<data, conditions, username, password, throttled,
                   lastAnswer, dataAtCall, loginsBefore, authFails, availAtCall,
                   state, caller>>

\* self.login() inside error_check, then retry = True and the recursive
\* call of get_system_information at line 227.
ReLogin(a) ==
    /\ pc = "login"
    /\ events' = Append(events, "login")
    /\ LET r == login(raw_data, a)
       IN  /\ raw_data' = r.raw_data
           /\ IF r.exc # "none" THEN EndUpdate(r.exc)
              ELSE IF depth = RecursionLimit THEN EndUpdate("RecursionError")
              ELSE /\ pc' = "gsi"
                   /\ depth' = depth + 1
                   /\ UNCHANGED <<result, elapsed, sinceFetch>>
    /\ UNCHANGED <<data, available, conditions, username, password, throttled,
                   lastAnswer, dataAtCall, loginsBefore, authFails, availAtCall,
                   state, caller>>

\* Time passes between two calls of update().
Tick ==
    /\ pc = "idle"
    /\ elapsed' = Later(elapsed)
    /\ sinceFetch' = Later(sinceFetch)
    /\ UNCHANGED <<pc, depth, data, raw_data, available, conditions, username,
                   password, result, throttled, events, lastAnswer, dataAtCall,
                   loginsBefore, authFails, availAtCall, state, caller>>

Next ==
    \/ \E a \in LoginAnswers : CtorLogin(a)
    \/ Update
    \/ \E a \in GetInformationAnswers : GetSystemInformation(a)
    \/ \E a \in LoginAnswers : ReLogin(a)
    \/ Tick

Spec == Init /\ [][Next]_vars

\* The platform as Home Assistant drives it: update() is called only by the
\* async_update of the sensors that async_setup_platform created. The
\* answers are the failures, the error envelopes and the responses that
\* carry the one field Version.
SensorAnswers ==
    { a \in GetInformationAnswers :
        \/ a \in { ConnFail, NotJson }
        \/ /\ a.kind = "json"
           /\ a.body # None
           /\ DOMAIN a.body = { "response", "error" }
           /\ \/ a.body.response = None
              \/ /\ a.body.error = None
                 /\ Len(a.body.response.items) = 1
                 /\ a.body.response.items[1].name = NameVersion }

SensorNext ==
    \/ \E a \in LoginAnswers : CtorLogin(a)
    \/ \E s \in DOMAIN conditions : AsyncUpdate(s)
    \/ \E a \in SensorAnswers : GetSystemInformation(a)
    \/ \E a \in LoginAnswers : ReLogin(a)
    \/ Tick

SensorSpec == Init /\ [][SensorNext]_vars

-----------------------------------------------------------------------------
(* Vocabulary of the properties *)

Gets == Count(events, "get")
Logins == Count(events, "login")

InCall == pc \in { "gsi", "login" }

\* Less than the minimum interval has passed since a fetching update() ended.
InWindow == sinceFetch # NoTime /\ sinceFetch < MIN_TIME_BETWEEN_UPDATES

InitialData == [k \in MONITORED_CONDITIONS |-> STATE_UNKNOWN]

Subscribed == { conditions[i] : i \in DOMAIN conditions }

\* The answer is an envelope whose error is non-null with another code.
IsOtherError(a) ==
    /\ a.kind = "json"
    /\ a.body # None
    /\ "error" \in DOMAIN a.body
    /\ a.body.error # None
    /\ a.body.error.code \notin { 5000, 5001 }

\* A response as the wire protocol defines it: null, or an object whose
\* structured fields are {text, value} progress objects.
IsWellFormed(r) ==
    \/ r = None
    \/ \A i \in DOMAIN r.items :
          IsDict(r.items[i].val) => "value" \in DOMAIN r.items[i].val.dict

\* The answer is an envelope with error = null and such a response.
IsSuccess(a) ==
    /\ a.kind = "json"
    /\ a.body # None
    /\ DOMAIN a.body = { "response", "error" }
    /\ a.body.error = None
    /\ IsWellFormed(a.body.response)

\* The key a field name stands for, and the value a field carries.
KeyCpuUsage == <<"c","p","u","_","u","s","a","g","e">>

ExpectedKey(n) ==
    CASE n = NameVersion -> ATTR_VERSION
      [] n = NameCPUusage -> KeyCpuUsage

ValueOf(v) == IF IsDict(v) THEN v.dict.value ELSE v.scalar

\* d holds, for every field of the response r, the field's value.
Holds(d, r) ==
    \/ r = None
    \/ \A i \in DOMAIN r.items :
          /\ ExpectedKey(r.items[i].name) \in DOMAIN d
          /\ d[ExpectedKey(r.items[i].name)] = ValueOf(r.items[i].val)

-----------------------------------------------------------------------------
(* Properties *)

\* C1. Retry cap: when the first getInformation request of an update() and
\* its retry are both answered with error code 5000 or 5001, the update()
\* calls login() once, sends getInformation twice, then returns with
\* available = false.
C1_RetryCap ==
    authFails >= 2 =>
        /\ Logins <= 1
        /\ Gets <= 2
        /\ pc = "idle" => (result = "returned" /\ ~available)

\* C2. Termination: every update() returns of its own accord, whatever the
\* appliance answers: none is ended by the interpreter running out of stack
\* frames for get_system_information.
C2_UpdateReturns == result # "RecursionError"

\* C3. No error escapes update(): every update() that has ended has returned
\* normally.
C3_NoErrorEscapes == pc = "idle" => result \in { "none", "returned" }

\* C4. Failure isolation: when a getInformation request of an update() (the
\* first or a retry) fails at transport level, the update() ends there with
\* data as it was before the call and available = false.
C4_FailureIsolation ==
    lastAnswer = ConnFail =>
        /\ pc = "idle"
        /\ data = dataAtCall
        /\ ~available

C4_Witness ==
    /\ lastAnswer = ConnFail
    /\ Gets = 2
    /\ result = "UnboundLocalError"
    /\ data # InitialData

\* C5. Re-authentication then retry: when the first getInformation request
\* of an update() is answered with 5000/5001 and the retried one with
\* error = null, the update() sent getInformation, login, getInformation in
\* this order and nothing else, data holds the values of the retry's
\* response, available = true, and login() was called once more than before
\* the update(): twice in all when only the constructor had called it.
C5_ReauthThenRetry ==
    (pc = "idle" /\ authFails = 1 /\ IsSuccess(lastAnswer)) =>
        /\ events = <<"get", "login", "get">>
        /\ result = "returned"
        /\ available
        /\ Holds(data, lastAnswer.body.response)
        /\ loginCount = loginsBefore + 1
        /\ loginsBefore = 1 => loginCount = 2

C5_Witness ==
    /\ pc = "idle"
    /\ authFails = 1
    /\ lastAnswer = Json(Env(Obj(<<Field(NameVersion, Scalar("5.2"))>>), None))
    /\ dataAtCall = InitialData
    /\ data[ATTR_VERSION] = "5.2"
    /\ loginsBefore = 1
    /\ loginCount = 2

\* C6. Throttle idempotence: two calls of update() less than
\* MIN_TIME_BETWEEN_UPDATES apart together send at most one getInformation
\* request: no call fetches that soon after a fetching call, and a fetching
\* call followed that soon by a throttled one has sent at most one request.
C6_AtMostOneRequest ==
    InWindow =>
        /\ ~InCall
        /\ throttled => Gets <= 1

\* What the Throttle does give: a call of update() made less than
\* MIN_TIME_BETWEEN_UPDATES after a call that returned from
\* get_system_information is answered by the Throttle and sends nothing.
ThrottledAfterReturn ==
    [][ (Update /\ InWindow /\ result = "returned") =>
            (pc' = "idle" /\ throttled' /\ events' = events) ]_vars

\* C7. Throttled call is a no-op: an update() called within the minimum
\* interval after the previous fetching update(), whatever its outcome,
\* sends no request, calls no login() and leaves data, available and
\* raw_data unchanged.
C7_ThrottledNoOp ==
    [][ (Update /\ InWindow) =>
            (pc' = "idle" /\ UNCHANGED <<data, available, raw_data, events>>) ]_vars

C9_OnlySubscribedKnownKeys ==
    /\ DOMAIN data = MONITORED_CONDITIONS
    /\ \A k \in MONITORED_CONDITIONS \ Subscribed : data[k] = STATE_UNKNOWN

\* C10. Snapshot completeness: data always contains every known metric key.
C10_SnapshotComplete == MONITORED_CONDITIONS \subseteq DOMAIN data

C10_Witness ==
    /\ pc = "idle"
    /\ result = "returned"
    /\ DOMAIN data # MONITORED_CONDITIONS
    /\ data[ATTR_VERSION] = "5"

\* The body answering a getInformation request is not JSON, or is JSON
\* without the error and response fields of an envelope.
IsMalformed(a) ==
    \/ a.kind = "notjson"
    \/ /\ a.kind = "json"
       /\ \/ a.body = None
          \/ { "response", "error" } \ DOMAIN a.body # {}

\* The answer is an envelope whose error is non-null.
IsRpcError(a) ==
    /\ a.kind = "json"
    /\ a.body # None
    /\ DOMAIN a.body = { "response", "error" }
    /\ a.body.error # None

\* The answer is an envelope with error = null whose response has a
\* structured field without the value sub-field.
IsMissingValue(a) ==
    /\ a.kind = "json"
    /\ a.body # None
    /\ DOMAIN a.body = { "response", "error" }
    /\ a.body.error = None
    /\ ~IsWellFormed(a.body.response)

\* C11. All-or-nothing: an update() whose fetch ended on a transport
\* failure, an RPC error, a malformed body or a response with a structured
\* field missing its value has left data as it was before the call and
\* available = false.
C11_AllOrNothing ==
    ( /\ pc = "idle"
      /\ \/ lastAnswer = ConnFail
         \/ IsRpcError(lastAnswer)
         \/ IsMalformed(lastAnswer)
         \/ IsMissingValue(lastAnswer) ) =>
        /\ data = dataAtCall
        /\ ~available

\* data holds some but not all of the fields of the last response: the
\* state the claim C11 excludes.
PartlyApplied ==
    /\ pc = "idle"
    /\ IsMissingValue(lastAnswer)
    /\ data # dataAtCall

\* C13. Malformed responses count as transport failures: after a body that
\* is not JSON, or is JSON without the error/response fields, the update()
\* has left data unchanged and available = false.
C13_MalformedIsFailure ==
    (pc = "idle" /\ IsMalformed(lastAnswer)) =>
        /\ data = dataAtCall
        /\ ~available

\* C12. Success and recovery: whatever the client's state was before, also
\* available = false, an update() whose getInformation request is answered
\* with error = null has returned with available = true, and data holds the
\* response's value for every subscribed known key the response carries.
C12_SuccessAndRecovery ==
    (pc = "idle" /\ IsSuccess(lastAnswer)) =>
        /\ result = "returned"
        /\ available
        /\ LET r == lastAnswer.body.response
           IN  r # None =>
                 \A i \in DOMAIN r.items :
                    LET k == ExpectedKey(r.items[i].name)
                    IN  k \in Subscribed \cap MONITORED_CONDITIONS =>
                          data[k] = ValueOf(r.items[i].val)

C12_Witness ==
    /\ pc = "idle"
    /\ ~availAtCall
    /\ lastAnswer = Json(Env(Obj(<<Field(NameVersion, Progress)>>), None))
    /\ conditions = <<ATTR_VERSION>>
    /\ dataAtCall[ATTR_VERSION] = "5.2"
    /\ data[ATTR_VERSION] = "5"
    /\ available

\* The login outcomes the claim C14 lists: success, a non-null RPC error, a
\* transport failure.
ListedLoginOutcomes ==
    { Json(Env(LoginResponse, None)),
      Json(Env(None, Err(ERROR_CODE_NOT_AUTHENTICATED))),
      ConnFail }

\* C14. Construction is eager and never fails hard: for each of these login
\* outcomes the constructor's login() is the first and only login request,
\* the constructor completes without raising, data holds the unknown
\* sentinel under every known key and no getInformation request was sent.
C14_EagerConstruction ==
    [][ \A a \in ListedLoginOutcomes :
          CtorLogin(a) =>
            /\ loginCount = 0
            /\ loginCount' = 1
            /\ pc' = "idle"
            /\ result' = "none"
            /\ data' = InitialData
            /\ Gets' = 0 ]_vars

C14_Witness ==
    /\ pc = "idle"
    /\ lastAnswer = NoAnswer
    /\ loginCount = 1
    /\ raw_data = Env(None, Err(ERROR_CODE_NOT_AUTHENTICATED))
    /\ data = InitialData
    /\ events = <<>>

\* The getInformation answer whose response the latest update() formatted
\* to the end.
Formatted ==
    /\ pc = "idle"
    /\ result = "returned"
    /\ lastAnswer.kind = "json"
    /\ lastAnswer.body # None
    /\ lastAnswer.body.response # None

KeysOf(r) == { ExpectedKey(r.items[i].name) : i \in DOMAIN r.items }

\* d is d0 with every field of r stored under its lower-cased, underscored
\* name: the value sub-field of a structured field, the scalar otherwise.
Normalized(d, d0, r) ==
    /\ DOMAIN d = DOMAIN d0 \cup KeysOf(r)
    /\ \A i \in DOMAIN r.items :
          d[ExpectedKey(r.items[i].name)] = ValueOf(r.items[i].val)
    /\ \A k \in DOMAIN d0 \ KeysOf(r) : d[k] = d0[k]

HasField(r, n) == \E i \in DOMAIN r.items : r.items[i].name = n

C16_NoRetryOnTransportFailure ==
    lastAnswer = ConnFail =>
        /\ ~InCall
        /\ events[Len(events)] = "get"
        /\ Gets = authFails + 1
        /\ Logins = authFails

C16_Witness ==
    /\ pc = "idle"
    /\ lastAnswer = ConnFail
    /\ events = <<"get">>
    /\ availAtCall
    /\ ~available

\* C17. login() has no effect on the snapshot: a step in which login() is
\* called is the constructor's or follows a 5000/5001 answer to
\* getInformation, and leaves data, available, username and password
\* unchanged, whatever the login request is answered.
C17_LoginFrame ==
    [][ loginCount' > loginCount =>
          /\ pc = "ctor" \/ (pc = "login" /\ IsAuthError(lastAnswer))
          /\ UNCHANGED <<data, available, username, password>> ]_vars

C17_Witness ==
    /\ pc = "gsi"
    /\ events = <<"get", "login">>
    /\ raw_data = Env(LoginResponse, None)
    /\ ~available
    /\ data = dataAtCall
    /\ data # InitialData

\* C18. No login response leaks into the snapshot: the buffer a returned
\* update() formatted is the body of its latest getInformation answer, and
\* data holds neither the key nor the value of the login response's field.
C18_NoLoginLeak ==
    /\ (pc = "idle" /\ result = "returned") => raw_data = lastAnswer.body
    /\ PropOf(NameUsername) \notin DOMAIN data
    /\ \A k \in DOMAIN data : data[k] # DEFAULT_USERNAME

C18_Witness ==
    /\ pc = "idle"
    /\ result = "returned"
    /\ events = <<"get", "login", "get">>
    /\ loginsBefore = 1
    /\ lastAnswer = Json(Env(Obj(<<Field(NameVersion, Scalar("5.2"))>>), None))
    /\ dataAtCall = InitialData
    /\ data[ATTR_VERSION] = "5.2"

\* The latest async_update() has returned: its update() was answered by the
\* Throttle or came back from get_system_information.
AsyncUpdateReturned ==
    /\ pc = "idle"
    /\ caller # NoSensor
    /\ throttled \/ result = "returned"

\* C19. Sensor state follows availability: when an async_update() has
\* returned, its sensor's state is None if the client is unavailable and
\* the client's data under the sensor's key otherwise; an async_update()
\* answered by the Throttle falls in the window that the latest fetch
\* opened by returning, so its sensor reads the snapshot that fetch left.
C19_StateFollowsAvailability ==
    AsyncUpdateReturned =>
        /\ ~available => state[caller] = None
        /\ available => state[caller] = Scalar(data[conditions[caller]])
        /\ throttled =>
              /\ result = "returned"
              /\ elapsed # NoTime
              /\ elapsed = sinceFetch

C19_Witness ==
    /\ AsyncUpdateReturned
    /\ throttled
    /\ Len(conditions) = 2
    /\ caller = 2
    /\ events = <<"get">>
    /\ data[ATTR_VERSION] = "5.2"
    /\ state[1] = Scalar(data[conditions[1]])
    /\ state[2] = Scalar(data[conditions[2]])

\* A returned async_update() always finds the client available.
ReturnedIsAvailable == AsyncUpdateReturned => available

=============================================================================
